---- MODULE Spec2Model ----
(***************************************************************************)
(* Versioned catalog swap of src/lib/overwrite_glue.py: a Glue job that    *)
(* overwrites a catalog table by writing a new generation under            *)
(* .../version_<n+1>/ through a temporary table, replacing the target's    *)
(* partitions and then updating the target's table definition.             *)
(*                                                                         *)
(* The Glue Data Catalog, the S3 storage and the Glue sink are external:   *)
(* the model keeps their state (tables, partitions, storage) and lets      *)
(* every call to them either succeed or raise.  An exception that the job  *)
(* does not catch ends the invocation (pc = "failed").                     *)
(*                                                                         *)
(* Spec is one run of the job from any of the catalogs of InitCatalog;     *)
(* SpecRuns is MaxInvocations runs one after the other.  The second        *)
(* element of Procs is a job run that these specifications never start.    *)
(***************************************************************************)
EXTENDS Integers, Sequences, FiniteSets, TLC

(* ------------------------------ bounds --------------------------------- *)
MaxInvocations == 2      \* job runs in one behaviour
MaxClock == 1            \* minutes the wall clock can reach
MaxGen == 1              \* highest generation of a pre-existing target
TargetMany == 60         \* partitions of a large pre-existing target
StagingMany == 101       \* partitions of a large new data set
ListPageSize == 30       \* page size the catalog uses when none is asked for

(* ------------------------- program constants --------------------------- *)
batch == 25              \* delete_partitions(..., batch=25)
PageSize == 100          \* PaginationConfig={'PageSize': 100}

Procs == {1, 2}

(* ------------------------------ paths ---------------------------------- *)
(* A location is the sequence of its '/'-delimited segments, so            *)
(* str.split('/') and '/'.join are the identity on it.  A segment is a     *)
(* text s followed, when hasN, by the decimal digits of n.                 *)
Seg(s) == [s |-> s, hasN |-> FALSE, n |-> 0]
SegN(s, n) == [s |-> s, hasN |-> TRUE, n |-> n]
Empty == Seg("")
Version(n) == SegN("version_", n)

\* str.replace('version_', '') on the text of a segment
ReplaceVersion(s) == IF s = "version_" THEN "" ELSE s

\* int(text): succeeds on decimal digits only
IntOk(seg) == seg.hasN /\ ReplaceVersion(seg.s) = ""

\* calculate_next_location as it would be without the + 1 of line 126
calculate_next_location_same_version(location) ==
    IF Len(location) < 2 \/ ~IntOk(location[Len(location) - 1])
    THEN [ok |-> FALSE, value |-> <<>>]
    ELSE [ok |-> TRUE,
          value |-> SubSeq(location, 1, Len(location) - 2)
                    \o <<Version(location[Len(location) - 1].n), Empty>>]

calculate_next_location(location) ==
    IF Len(location) < 2
    THEN [ok |-> FALSE, value |-> <<>>]                 \* IndexError
    ELSE LET curr_version_suffix == location[Len(location) - 1] IN
         IF ~IntOk(curr_version_suffix)
         THEN [ok |-> FALSE, value |-> <<>>]            \* ValueError
         ELSE [ok |-> TRUE,
               value |-> SubSeq(location, 1, Len(location) - 2)
                         \o <<Version(curr_version_suffix.n + 1), Empty>>]

\* get_output_path as it would be without lines 64-65
get_output_path_keeps_separator(location_uri, table_name) ==
    location_uri \o <<Seg(table_name)>>

get_output_path(location_uri, table_name) ==
    LET uri == IF Len(location_uri) > 0 /\ location_uri[Len(location_uri)] = Empty
               THEN SubSeq(location_uri, 1, Len(location_uri) - 1)
               ELSE location_uri
    IN uri \o <<Seg(table_name)>>

(* ----------------------------- names ----------------------------------- *)
output_table == "out"
TargetName == [base |-> output_table, tmp |-> FALSE, stamp |-> 0]
\* the temporary table's name as it would be without the suffix of line 100
version_tmp_table_without_suffix(now) == TargetName

\* f"{output_table}_version_tmp_{now.strftime('%Y%m%d%H%M')}"
version_tmp_table(now) == [base |-> output_table, tmp |-> TRUE, stamp |-> now]

DatabaseUris == { <<Seg("s3:"), Empty, Seg("bkt"), Seg("db")>>,
                  <<Seg("s3:"), Empty, Seg("bkt"), Seg("db"), Empty>> }

TableRoot == <<Seg("s3:"), Empty, Seg("bkt"), Seg("db"), Seg(output_table)>>

(* --------------------------- input data -------------------------------- *)
KeyUniverse == 1..(IF TargetMany > StagingMany THEN TargetMany ELSE StagingMany)

\* partition sets of a pre-existing target
TargetPartitionSets == { {}, 1..12, 1..TargetMany }
\* the data frames a job run may have read: a schema and the partitions its rows fall in
Frames == { [Schema |-> "s1", Keys |-> {}],
            [Schema |-> "s1", Keys |-> 4..12],
            [Schema |-> "s2", Keys |-> 1..StagingMany] }

\* locations a pre-existing target may be registered at
TargetLocations ==
    { TableRoot \o <<Version(g), Empty>> : g \in 0..MaxGen }
    \cup { TableRoot \o <<Version(0)>>,             \* no trailing separator
           TableRoot \o <<SegN("", 7), Empty>>,     \* bare integer
           TableRoot \o <<Seg("data"), Empty>>,     \* no generation
           <<Seg("out")>> }                         \* a single segment

(* ------------------------------ state ---------------------------------- *)
VARIABLES
    tables,                 \* catalog: table name -> [Location, Schema]
    parts,                  \* catalog: table name -> (partition Values -> its Location)
    storage,                \* S3: set of [path, run, complete] data sets written
    database_location_uri,  \* get_database(...)['Database']['LocationUri']
    clock,                  \* datetime.now(), in minutes
    invocations,            \* job runs started so far
    budget,                 \* job runs the scheduler will start
    pc,                     \* position of each job run
    local,                  \* local variables of each job run
    calls,                  \* writes and catalog mutations issued by the run, in order
    published,              \* locations the target was given by the job's runs, in order
    pre                     \* catalog as it was when the run started

vars == <<tables, parts, storage, database_location_uri, clock, invocations,
          budget, pc, local, calls, published, pre>>

NoTable == [found |-> FALSE, Location |-> <<>>, Schema |-> ""]
NoFrame == [Schema |-> "", Keys |-> {}]

InitLocal ==
    [ dyf |-> NoFrame,
      output_path |-> <<>>,
      existing_target_table |-> NoTable,
      version_tmp_table |-> TargetName,
      next_location |-> <<>>,
      table_input |-> NoTable,
      token |-> 0,             \* paginator: last key returned (NextToken)
      more |-> FALSE,          \* paginator: the last response carried a NextToken
      page |-> <<>>,           \* page['Partitions']
      i |-> 0,                 \* range(0, len(partitions), batch)
      run |-> 0,               \* which job run this is
      get_table_raised |-> FALSE,  \* get_table(target) raised and was swallowed
      staging_at_reconcile |-> {}, \* staging partitions when reconciliation began
      raised |-> "" ]          \* the call whose exception ended the run

Call(op, table, n, ok) == [op |-> op, table |-> table, n |-> n, ok |-> ok]

\* Location of the partition with Values k of a table registered under base
PartitionLocation(base, k) == base \o <<SegN("key=", k)>>

\* what a run that wrote StaleFrame in minute 0 and then raised leaves behind
StaleFrame == [Schema |-> "s1", Keys |-> 4..12]
StaleName == [base |-> output_table, tmp |-> TRUE, stamp |-> 0]

InitCatalog ==
    \/ /\ tables = <<>>
       /\ parts = <<>>
       /\ storage = {}
    \/ \E l \in TargetLocations, ks \in TargetPartitionSets :
          /\ tables = (TargetName :> [Location |-> l, Schema |-> "s0"])
          /\ parts = (TargetName :> [k \in ks |-> PartitionLocation(l, k)])
          /\ storage = {[path |-> l, run |-> 0, complete |-> TRUE]}
    \/ \E g \in 0..MaxGen, ks \in TargetPartitionSets :
          LET l == TableRoot \o <<Version(g), Empty>>
              n == TableRoot \o <<Version(g + 1), Empty>>
          IN /\ tables = (TargetName :> [Location |-> l, Schema |-> "s0"])
                          @@ (StaleName :> [Location |-> n, Schema |-> StaleFrame.Schema])
             /\ parts = (TargetName :> [k \in ks |-> PartitionLocation(l, k)])
                         @@ (StaleName :> [k \in StaleFrame.Keys |-> PartitionLocation(n, k)])
             /\ storage = {[path |-> l, run |-> 0, complete |-> TRUE],
                           [path |-> n, run |-> 0, complete |-> TRUE]}

InitRest ==
    /\ database_location_uri \in DatabaseUris
    /\ clock = 0
    /\ invocations = 0
    /\ local = [p \in Procs |-> InitLocal]
    /\ calls = [p \in Procs |-> <<>>]
    /\ published = <<>>
    /\ pre = [p \in Procs |-> [tables |-> <<>>, parts |-> <<>>]]

\* one run of the job, alone
Init ==
    /\ InitCatalog
    /\ InitRest
    /\ budget = 1
    /\ pc = [p \in Procs |-> IF p = 1 THEN "idle" ELSE "off"]

\* runs of the job one after the other, as the scheduler starts them
InitRuns ==
    /\ InitCatalog
    /\ InitRest
    /\ budget = MaxInvocations
    /\ pc = [p \in Procs |-> IF p = 1 THEN "idle" ELSE "off"]

\* two jobs on one target at generation 0: the second job either is never
\* started (the scheduler runs one job at a time) or runs when it likes
InitJobs ==
    /\ \E ks \in {1..12} :
          /\ tables = (TargetName :> [Location |-> TableRoot \o <<Version(0), Empty>>,
                                      Schema |-> "s0"])
          /\ parts = (TargetName :>
                [k \in ks |-> PartitionLocation(TableRoot \o <<Version(0), Empty>>, k)])
          /\ storage = {[path |-> TableRoot \o <<Version(0), Empty>>, run |-> 0,
                         complete |-> TRUE]}
    /\ InitRest
    /\ database_location_uri[Len(database_location_uri)] # Empty
    /\ budget = MaxInvocations
    /\ \E second \in {"off", "idle"} :
          pc = [p \in Procs |-> IF p = 1 THEN "idle" ELSE second]

(* --------------------------- the catalog ------------------------------- *)
Raise(p, what) ==
    /\ pc' = [pc EXCEPT ![p] = "failed"]
    /\ local' = [local EXCEPT ![p].raised = what]

\* glue_client.get_table inside try/except: any exception gives None
get_catalog_table(table_name, raises) ==
    IF raises \/ table_name \notin DOMAIN tables
    THEN NoTable
    ELSE [found |-> TRUE, Location |-> tables[table_name].Location,
          Schema |-> tables[table_name].Schema]

\* keys of a table's partitions, ascending
SortedKeys(S) == SelectSeq([k \in KeyUniverse |-> k], LAMBDA k : k \in S)

Take(s, n) == SubSeq(s, 1, IF Len(s) < n THEN Len(s) ELSE n)

\* one get_partitions response: the next page_size partitions after the token.
\* The token is the last key returned (a continuation key, not an offset), so
\* partitions deleted since the page was listed do not shift the pages after it.
get_partitions(table, page_size, token) ==
    LET rest == SortedKeys({k \in DOMAIN parts[table] : k > token})
        keys == Take(rest, page_size)
    IN [Partitions |-> [j \in 1..Len(keys) |->
                          [Values |-> keys[j], TableName |-> table,
                           Location |-> parts[table][keys[j]]]],
        NextToken |-> IF Len(keys) = 0 THEN token ELSE keys[Len(keys)],
        more |-> Len(rest) > Len(keys)]

(* ------------------------------ main ----------------------------------- *)
\* main(), lines 132-170: resolve the arguments, get_output_path, read the frame
main(p) ==
    /\ pc[p] \in {"idle", "done", "failed"}
    /\ invocations < budget
    /\ \E frame \in Frames :
          local' = [local EXCEPT ![p] =
                      [InitLocal EXCEPT
                         !.dyf = frame,
                         !.run = invocations + 1,
                         !.output_path =
                             get_output_path(database_location_uri, output_table)]]
    /\ invocations' = invocations + 1
    /\ calls' = [calls EXCEPT ![p] = <<>>]
    /\ pre' = [pre EXCEPT ![p] = [tables |-> tables, parts |-> parts]]
    /\ pc' = [pc EXCEPT ![p] = "get_target"]
    /\ UNCHANGED <<tables, parts, storage, database_location_uri, clock, budget,
                   published>>

(* ------------------- write_versioned_parquet: START -------------------- *)
\* lines 93-96: the target is not found, or get_table raised: first write
target_is_none(p) ==
    /\ pc[p] = "get_target"
    /\ \E raises \in BOOLEAN :
          /\ ~get_catalog_table(TargetName, raises).found
          /\ local' = [local EXCEPT
                ![p].existing_target_table = NoTable,
                ![p].get_table_raised = raises,
                ![p].output_path = local[p].output_path \o <<Version(0)>>]
    /\ pc' = [pc EXCEPT ![p] = "first_write"]
    /\ UNCHANGED <<tables, parts, storage, database_location_uri, clock,
                   invocations, budget, calls, published, pre>>

\* lines 93, 98-102: the target exists and its location has a generation
target_exists(p) ==
    /\ pc[p] = "get_target"
    /\ LET t == get_catalog_table(TargetName, FALSE)
           next == calculate_next_location(t.Location)
       IN /\ t.found
          /\ next.ok
          /\ \E now \in clock..MaxClock :        \* line 99: datetime.now()
                /\ clock' = now
                /\ local' = [local EXCEPT
                      ![p].existing_target_table = t,
                      ![p].version_tmp_table = version_tmp_table(now),
                      ![p].next_location = next.value]
    /\ pc' = [pc EXCEPT ![p] = "write_tmp"]
    /\ UNCHANGED <<tables, parts, storage, database_location_uri,
                   invocations, budget, budget, calls, published, pre>>

\* lines 93, 98-102: calculate_next_location raises (IndexError, ValueError)
target_malformed(p) ==
    /\ pc[p] = "get_target"
    /\ LET t == get_catalog_table(TargetName, FALSE) IN
          /\ t.found
          /\ ~calculate_next_location(t.Location).ok
          /\ pc' = [pc EXCEPT ![p] = "failed"]
          /\ \E now \in clock..MaxClock :        \* line 99: datetime.now()
                /\ clock' = now
                /\ local' = [local EXCEPT
                      ![p].existing_target_table = t,
                      ![p].version_tmp_table = version_tmp_table(now),
                      ![p].raised = "calculate_next_location"]
    /\ UNCHANGED <<tables, parts, storage, database_location_uri,
                   invocations, budget, budget, calls, published, pre>>

(* --------------------------- the Glue sink ----------------------------- *)
\* write_parquet, lines 77-89: sink.writeFrame(dyf) with enableUpdateCatalog.
\* The data goes under path; the table is created at path when the catalog
\* has none of that name, else its schema is updated and the partitions it
\* does not have yet are added.
sink_tables(path, table, dyf) ==
    IF table \in DOMAIN tables
    THEN [tables EXCEPT ![table].Schema = dyf.Schema]
    ELSE (table :> [Location |-> path, Schema |-> dyf.Schema]) @@ tables

sink_parts(path, table, keys) ==
    LET old == IF table \in DOMAIN parts THEN parts[table] ELSE <<>>
        new == [k \in DOMAIN old \cup keys |->
                   IF k \in DOMAIN old THEN old[k] ELSE PartitionLocation(path, k)]
    IN (table :> new) @@ parts

write_parquet(p, path, table) ==
    /\ storage' = storage \cup
          {[path |-> path, run |-> local[p].run, complete |-> TRUE]}
    /\ tables' = sink_tables(path, table, local[p].dyf)
    /\ parts' = sink_parts(path, table, local[p].dyf.Keys)
    /\ calls' = [calls EXCEPT ![p] =
                    Append(@, Call("write_parquet", table, Cardinality(local[p].dyf.Keys), TRUE))]

\* line 97: the first write, straight under the target's name
first_write(p) ==
    /\ pc[p] = "first_write"
    /\ write_parquet(p, local[p].output_path, TargetName)
    /\ published' = Append(published, tables'[TargetName].Location)
    /\ pc' = [pc EXCEPT ![p] = "commit"]
    /\ UNCHANGED <<database_location_uri, clock, invocations, budget, local, pre>>

\* line 104 as it would be with output_path in place of next_location
write_tmp_under_output_path(p) ==
    /\ pc[p] = "write_tmp"
    /\ write_parquet(p, local[p].output_path, local[p].version_tmp_table)
    /\ pc' = [pc EXCEPT ![p] = "get_tmp"]
    /\ UNCHANGED <<database_location_uri, clock, invocations, budget, local,
                   published, pre>>

\* line 104: the new generation, under the temporary table's name
write_tmp(p) ==
    /\ pc[p] = "write_tmp"
    /\ write_parquet(p, local[p].next_location, local[p].version_tmp_table)
    /\ pc' = [pc EXCEPT ![p] = "get_tmp"]
    /\ UNCHANGED <<database_location_uri, clock, invocations, budget, local,
                   published, pre>>

\* the path and table name of the write the run is about to make
WriteTarget(p) ==
    IF pc[p] = "first_write"
    THEN [path |-> local[p].output_path, table |-> TargetName]
    ELSE [path |-> local[p].next_location, table |-> local[p].version_tmp_table]

\* lines 97, 104: sink.writeFrame raises: before it wrote anything, with files
\* already under the path, or with the table registered and its partitions not
\* yet added
write_parquet_raises(p) ==
    /\ pc[p] \in {"first_write", "write_tmp"}
    /\ \E reached \in {"nothing", "files", "table"} :
          LET w == WriteTarget(p) IN
          /\ storage' = IF reached = "nothing" THEN storage
                        ELSE storage \cup {[path |-> w.path, run |-> local[p].run,
                                            complete |-> FALSE]}
          /\ tables' = IF reached = "table"
                       THEN sink_tables(w.path, w.table, local[p].dyf) ELSE tables
          /\ parts' = IF reached = "table"
                      THEN sink_parts(w.path, w.table, {}) ELSE parts
    /\ calls' = [calls EXCEPT ![p] =
                    Append(@, Call("write_parquet", WriteTarget(p).table, 0, FALSE))]
    /\ Raise(p, "write_parquet")
    /\ UNCHANGED <<database_location_uri, clock, invocations, budget, published, pre>>

(* ------------------ write_versioned_parquet: the swap ------------------ *)
\* lines 108-112: the temporary table's definition under the target's name
\* and the next location
make_table_input(version_tmp_table_result, next_location) ==
    [found |-> TRUE, Location |-> next_location,
     Schema |-> version_tmp_table_result.Schema]

\* lines 106-112 as they would be followed by line 117, without lines 114-115
get_tmp_skips_reconciliation(p) ==
    /\ pc[p] = "get_tmp"
    /\ \E raises \in BOOLEAN :
          LET r == get_catalog_table(local[p].version_tmp_table, raises) IN
          IF r.found
          THEN /\ local' = [local EXCEPT
                     ![p].table_input = make_table_input(r, local[p].next_location),
                     ![p].staging_at_reconcile =
                         DOMAIN parts[local[p].version_tmp_table]]
               /\ pc' = [pc EXCEPT ![p] = "update_table"]
          ELSE Raise(p, "get_catalog_table")
    /\ UNCHANGED <<tables, parts, storage, database_location_uri, clock,
                   invocations, budget, calls, published, pre>>

\* lines 106-112
get_tmp(p) ==
    /\ pc[p] = "get_tmp"
    /\ \E raises \in BOOLEAN :
          LET r == get_catalog_table(local[p].version_tmp_table, raises) IN
          IF r.found
          THEN /\ local' = [local EXCEPT
                     ![p].table_input = make_table_input(r, local[p].next_location),
                     ![p].staging_at_reconcile =
                         DOMAIN parts[local[p].version_tmp_table],
                     ![p].token = 0, ![p].more = FALSE,
                     ![p].page = <<>>, ![p].i = 0]
               /\ pc' = [pc EXCEPT ![p] = "delete_partitions"]
          ELSE Raise(p, "get_catalog_table")       \* None['Table']: TypeError
    /\ UNCHANGED <<tables, parts, storage, database_location_uri, clock,
                   invocations, budget, calls, published, pre>>

(* -------------------------- delete_partitions -------------------------- *)
Min(a, b) == IF a < b THEN a ELSE b

\* line 29 as it would be over partitions in place of partitions[i:i + batch]
to_delete_whole_page(partitions, i, batch_) ==
    { partitions[j].Values : j \in 1..Len(partitions) }

\* line 29: [{"Values": v["Values"]} for v in partitions[i:i + batch]]
to_delete(partitions, i, batch_) ==
    { partitions[j].Values : j \in (i + 1)..Min(i + batch_, Len(partitions)) }

\* the catalog's batch_delete_partition; a batch call succeeds or raises as a whole
batch_delete_partition(table_parts, keys) ==
    [k \in DOMAIN table_parts \ keys |-> table_parts[k]]

\* delete_partitions as it would be with one batch per page (no loop at line 28)
after_batch_delete_one_per_page(partitions, i, batch_, more) ==
    IF more THEN "delete_partitions" ELSE "copy_partitions"

\* where delete_partitions goes after the batch that started at i:
\* the next batch of the page, the next page, or back to line 115
after_batch_delete(partitions, i, batch_, more) ==
    IF i + batch_ < Len(partitions) THEN "batch_delete"
    ELSE IF more THEN "delete_partitions"
    ELSE "copy_partitions"

\* line 25: the paginator requests the next page of the target's partitions
delete_partitions_page(p) ==
    /\ pc[p] = "delete_partitions"
    /\ TargetName \in DOMAIN parts
    /\ LET page == get_partitions(TargetName, ListPageSize, local[p].token) IN
          /\ local' = [local EXCEPT
                ![p].page = page.Partitions,
                ![p].i = 0,
                ![p].token = IF page.more THEN page.NextToken ELSE 0,
                ![p].more = page.more]
          /\ pc' = [pc EXCEPT ![p] =
                IF Len(page.Partitions) > 0 THEN "batch_delete"
                ELSE IF page.more THEN "delete_partitions"
                ELSE "copy_partitions"]
    /\ UNCHANGED <<tables, parts, storage, database_location_uri, clock,
                   invocations, budget, calls, published, pre>>

\* lines 28-34: one batch_delete_partition call
delete_partitions_batch(p) ==
    /\ pc[p] = "batch_delete"
    /\ TargetName \in DOMAIN parts
    /\ LET keys == to_delete(local[p].page, local[p].i, batch) IN
          /\ parts' = [parts EXCEPT ![TargetName] = batch_delete_partition(@, keys)]
          /\ calls' = [calls EXCEPT ![p] =
                Append(@, Call("batch_delete_partition", TargetName,
                               Cardinality(keys), TRUE))]
    /\ local' = [local EXCEPT ![p].i = local[p].i + batch]
    /\ pc' = [pc EXCEPT ![p] =
          after_batch_delete(local[p].page, local[p].i, batch, local[p].more)]
    /\ UNCHANGED <<tables, storage, database_location_uri, clock, invocations, budget, published, pre>>

(* --------------------------- copy_partitions --------------------------- *)
\* lines 49-52 as they would be if they put each partition under the
\* target's registered location
clean_partitions_under_target_location(partitions) ==
    [j \in 1..Len(partitions) |->
        [Values |-> partitions[j].Values,
         Location |-> PartitionLocation(tables[TargetName].Location,
                                        partitions[j].Values)]]

\* lines 49-52: the partitions without DatabaseName, TableName, CreationTime
clean_partitions(partitions) ==
    [j \in 1..Len(partitions) |->
        [Values |-> partitions[j].Values, Location |-> partitions[j].Location]]

\* the catalog's batch_create_partition: a partition whose Values the table
\* already has is reported in the response's Errors and left as it is
batch_create_partition(table_parts, partition_input_list) ==
    LET new == { partition_input_list[j].Values :
                    j \in 1..Len(partition_input_list) } \ DOMAIN table_parts
        input(k) == CHOOSE j \in 1..Len(partition_input_list) :
                       partition_input_list[j].Values = k
    IN [k \in DOMAIN table_parts \cup new |->
           IF k \in DOMAIN table_parts THEN table_parts[k]
           ELSE partition_input_list[input(k)].Location]

\* line 45: the paginator requests the next page of the temporary table's partitions
copy_partitions_page(p) ==
    /\ pc[p] = "copy_partitions"
    /\ local[p].version_tmp_table \in DOMAIN parts
    /\ LET page == get_partitions(local[p].version_tmp_table, PageSize,
                                  local[p].token) IN
          local' = [local EXCEPT
                ![p].page = page.Partitions,
                ![p].token = IF page.more THEN page.NextToken ELSE 0,
                ![p].more = page.more]
    /\ pc' = [pc EXCEPT ![p] = "batch_create"]
    /\ UNCHANGED <<tables, parts, storage, database_location_uri, clock,
                   invocations, budget, calls, published, pre>>

\* lines 47-58: one batch_create_partition call with the whole page
copy_partitions_batch(p) ==
    /\ pc[p] = "batch_create"
    /\ TargetName \in DOMAIN parts
    /\ LET list == clean_partitions(local[p].page) IN
          /\ parts' = [parts EXCEPT ![TargetName] = batch_create_partition(@, list)]
          /\ calls' = [calls EXCEPT ![p] =
                Append(@, Call("batch_create_partition", TargetName, Len(list), TRUE))]
    /\ pc' = [pc EXCEPT ![p] =
          IF local[p].more THEN "copy_partitions" ELSE "update_table"]
    /\ UNCHANGED <<tables, storage, database_location_uri, clock, invocations, budget,
                   local, published, pre>>

(* ------------------------------- FLIP ---------------------------------- *)
\* line 117: update_table replaces the target's definition by table_input
update_table(p) ==
    /\ pc[p] = "update_table"
    /\ TargetName \in DOMAIN tables
    /\ tables' = [tables EXCEPT ![TargetName] =
                     [Location |-> local[p].table_input.Location,
                      Schema |-> local[p].table_input.Schema]]
    /\ calls' = [calls EXCEPT ![p] = Append(@, Call("update_table", TargetName, 0, TRUE))]
    /\ published' = Append(published, local[p].table_input.Location)
    /\ pc' = [pc EXCEPT ![p] = "delete_table"]
    /\ UNCHANGED <<parts, storage, database_location_uri, clock, invocations, budget,
                   local, pre>>

\* line 118: delete_table drops the temporary table and its partitions
delete_table(p) ==
    /\ pc[p] = "delete_table"
    /\ local[p].version_tmp_table \in DOMAIN tables
    /\ LET tmp == local[p].version_tmp_table IN
          /\ tables' = [t \in DOMAIN tables \ {tmp} |-> tables[t]]
          /\ parts' = [t \in DOMAIN parts \ {tmp} |-> parts[t]]
          /\ calls' = [calls EXCEPT ![p] = Append(@, Call("delete_table", tmp, 0, TRUE))]
    /\ pc' = [pc EXCEPT ![p] = "commit"]
    /\ UNCHANGED <<storage, database_location_uri, clock, invocations, budget, local, published, pre>>

\* line 179: job.commit(), reached only when write_versioned_parquet returned
commit(p) ==
    /\ pc[p] = "commit"
    /\ pc' = [pc EXCEPT ![p] = "done"]
    /\ UNCHANGED <<tables, parts, storage, database_location_uri, clock,
                   invocations, budget, local, calls, published, pre>>

(* ---------------------------- exceptions ------------------------------- *)
\* the catalog call the run is about to make
PendingCall(p) ==
    CASE pc[p] = "delete_partitions" -> "get_partitions"
      [] pc[p] = "copy_partitions" -> "get_partitions"
      [] pc[p] = "batch_delete" -> "batch_delete_partition"
      [] pc[p] = "batch_create" -> "batch_create_partition"
      [] pc[p] = "update_table" -> "update_table"
      [] pc[p] = "delete_table" -> "delete_table"
      [] OTHER -> ""

\* the table the pending call names
PendingTable(p) ==
    IF pc[p] \in {"copy_partitions", "delete_table"}
    THEN local[p].version_tmp_table ELSE TargetName

\* the number of items the pending call carries
PendingSize(p) ==
    CASE pc[p] = "batch_delete" ->
            Cardinality(to_delete(local[p].page, local[p].i, batch))
      [] pc[p] = "batch_create" -> Len(local[p].page)
      [] OTHER -> 0

\* a catalog call raises inside a try/except that passes, as in get_catalog_table
call_raises_and_is_swallowed(p) ==
    /\ PendingCall(p) # ""
    /\ calls' = [calls EXCEPT ![p] =
          Append(@, Call(PendingCall(p), PendingTable(p), PendingSize(p), FALSE))]
    /\ local' = [local EXCEPT ![p].raised = PendingCall(p)]
    /\ pc' = [pc EXCEPT ![p] = "update_table"]
    /\ UNCHANGED <<tables, parts, storage, database_location_uri, clock,
                   invocations, budget, published, pre>>

\* a catalog call raises and a finally clause drops the temporary table
call_raises_then_cleanup(p) ==
    /\ PendingCall(p) # ""
    /\ calls' = [calls EXCEPT ![p] =
          Append(@, Call(PendingCall(p), PendingTable(p), PendingSize(p), FALSE))]
    /\ Raise(p, PendingCall(p))
    /\ tables' = [t \in DOMAIN tables \ {local[p].version_tmp_table} |-> tables[t]]
    /\ parts' = [t \in DOMAIN parts \ {local[p].version_tmp_table} |-> parts[t]]
    /\ UNCHANGED <<storage, database_location_uri, clock,
                   invocations, budget, published, pre>>

\* lines 25-34, 45-58, 117, 118: a catalog call raises; nothing catches it, so
\* it leaves write_versioned_parquet and main, and job.commit() is not reached
call_raises(p) ==
    /\ PendingCall(p) # ""
    /\ calls' = [calls EXCEPT ![p] =
          IF PendingCall(p) = "get_partitions" THEN @
          ELSE Append(@, Call(PendingCall(p), PendingTable(p), PendingSize(p), FALSE))]
    /\ Raise(p, PendingCall(p))
    /\ UNCHANGED <<tables, parts, storage, database_location_uri, clock,
                   invocations, budget, published, pre>>

(* ------------------------------- Next ---------------------------------- *)
Next ==
    \/ \E p \in Procs :
          \/ main(p)
          \/ target_is_none(p)
          \/ target_exists(p)
          \/ target_malformed(p)
          \/ first_write(p)
          \/ write_tmp(p)
          \/ write_parquet_raises(p)
          \/ get_tmp(p)
          \/ delete_partitions_page(p)
          \/ delete_partitions_batch(p)
          \/ copy_partitions_page(p)
          \/ copy_partitions_batch(p)
          \/ update_table(p)
          \/ delete_table(p)
          \/ commit(p)
          \/ call_raises(p)

Spec == Init /\ [][Next]_vars

SpecRuns == InitRuns /\ [][Next]_vars

\* Overwrites of a target that get_table finds, in which the only call that
\* raises is the get_table of line 106.  Every behaviour of SpecJobs is a
\* behaviour of the job, so what SpecJobs reaches the job reaches.
NextJobs ==
    \E p \in Procs :
        \/ main(p)
        \/ target_exists(p)
        \/ write_tmp(p)
        \/ get_tmp(p)
        \/ delete_partitions_page(p)
        \/ delete_partitions_batch(p)
        \/ copy_partitions_page(p)
        \/ copy_partitions_batch(p)
        \/ update_table(p)
        \/ delete_table(p)
        \/ commit(p)

SpecJobs == InitJobs /\ [][NextJobs]_vars

(* ======================== the properties checked ======================== *)
\* the run issued a call op on table
Issued(p, op, table) ==
    \E j \in 1..Len(calls[p]) : calls[p][j].op = op /\ calls[p][j].table = table

\* the run issued a call op on some table
IssuedAny(p, op) == \E j \in 1..Len(calls[p]) : calls[p][j].op = op

\* the run found the target and took the overwrite path
Overwrite(p) == local[p].existing_target_table.found

\* <tableLocationRoot>/version_<n>/
GenerationLocation(n) == TableRoot \o <<Version(n), Empty>>

Generations == 0..(MaxGen + MaxInvocations + 1)

\* C1: in an overwrite whose write to the temporary table raised, the target's
\* definition and partitions are those the run found, and the run issued no
\* batch_delete_partition, batch_create_partition or update_table on the target.
C1_TargetUntouchedWhenWriteFails ==
    \A p \in Procs :
        (Overwrite(p) /\ local[p].raised = "write_parquet") =>
            /\ pc[p] = "failed"
            /\ TargetName \in DOMAIN tables
            /\ tables[TargetName] = pre[p].tables[TargetName]
            /\ parts[TargetName] = pre[p].parts[TargetName]
            /\ \A op \in {"batch_delete_partition", "batch_create_partition",
                          "update_table"} : ~Issued(p, op, TargetName)

\* the write raised after the temporary table was registered, over a target
\* that has partitions
C1_Witness ==
    \E p \in Procs :
        /\ Overwrite(p) /\ local[p].raised = "write_parquet"
        /\ local[p].version_tmp_table \in DOMAIN tables
        /\ local[p].version_tmp_table \notin DOMAIN pre[p].tables
        /\ DOMAIN parts[TargetName] # {}

\* C2: after an overwrite in which every step succeeded, from a target at
\* generation n: the target is at version_<n+1>/, has the schema written to the
\* temporary table, has exactly the temporary table's partitions, and the
\* temporary table is gone.
C2_SuccessfulOverwrite ==
    \A p \in Procs : \A n \in Generations :
        (pc[p] = "done" /\ Overwrite(p)
         /\ pre[p].tables[TargetName].Location = GenerationLocation(n)) =>
            /\ tables[TargetName].Location = GenerationLocation(n + 1)
            /\ tables[TargetName].Schema = local[p].dyf.Schema
            /\ DOMAIN parts[TargetName] = local[p].staging_at_reconcile
            /\ local[p].version_tmp_table \notin DOMAIN tables

\* 12 partitions replaced by the 9 of the new frame
C2_Witness ==
    \E p \in Procs :
        /\ pc[p] = "done" /\ Overwrite(p)
        /\ pre[p].tables[TargetName].Location = GenerationLocation(1)
        /\ DOMAIN pre[p].parts[TargetName] = 1..12
        /\ DOMAIN parts[TargetName] = 4..12
        /\ tables[TargetName].Schema # pre[p].tables[TargetName].Schema

\* C3: when delete_partitions and copy_partitions have both returned, the
\* target's partition keys are exactly those the temporary table had when the
\* reconciliation began.
C3_ReconciliationComplete ==
    \A p \in Procs :
        pc[p] = "update_table" =>
            DOMAIN parts[TargetName] = local[p].staging_at_reconcile

\* more target partitions than a page and a batch, more new ones than a page
C3_Witness ==
    \E p \in Procs :
        /\ pc[p] = "update_table"
        /\ Cardinality(DOMAIN pre[p].parts[TargetName]) > ListPageSize
        /\ Cardinality(DOMAIN pre[p].parts[TargetName]) > batch
        /\ Cardinality(local[p].staging_at_reconcile) > PageSize

\* C4: with no target at the start, the run writes under <root>/version_0 and
\* registers that under the target's name; no temporary table appears and no
\* batch_delete_partition, batch_create_partition, update_table or delete_table
\* is issued.
C4_FirstWrite ==
    \A p \in Procs :
        (pc[p] \in {"first_write", "commit", "done", "failed"}
         /\ TargetName \notin DOMAIN pre[p].tables) =>
            /\ ~Overwrite(p)
            /\ \A t \in DOMAIN tables : ~t.tmp
            /\ \A op \in {"batch_delete_partition", "batch_create_partition",
                          "update_table", "delete_table"} : ~IssuedAny(p, op)
            /\ pc[p] \in {"commit", "done"} =>
                  /\ TargetName \in DOMAIN tables
                  /\ tables[TargetName].Location = TableRoot \o <<Version(0)>>
                  /\ [path |-> TableRoot \o <<Version(0)>>, run |-> local[p].run,
                      complete |-> TRUE] \in storage

\* a first write in a database whose LocationUri ends with a separator
C4_Witness ==
    \E p \in Procs :
        /\ pc[p] = "done"
        /\ TargetName \notin DOMAIN pre[p].tables
        /\ database_location_uri[Len(database_location_uri)] = Empty
        /\ DOMAIN parts[TargetName] # {}

\* the number in the generation segment of a location the job published
Gen(l) == IF l[Len(l)] = Empty THEN l[Len(l) - 1].n ELSE l[Len(l)].n

\* C5: over the job's runs one after the other the target's generation is 0
\* after the first write and one more after every overwrite, and the run that
\* follows a first write accepts the location the first write registered.
C5_GenerationsAdvance ==
    /\ \A j \in 1..Len(published) :
          Gen(published[j]) = IF j = 1 THEN Gen(published[1])
                              ELSE Gen(published[j - 1]) + 1
    /\ \A p \in Procs :
          local[p].raised = "calculate_next_location" => published = <<>>

\* C6: a run whose get_table on the target raised while the target exists does
\* not go on as a first write and writes nothing.
C6_FirstWriteOnlyWhenNotFound ==
    \A p \in Procs :
        (local[p].get_table_raised /\ TargetName \in DOMAIN pre[p].tables) =>
            /\ pc[p] # "first_write"
            /\ ~IssuedAny(p, "write_parquet")

\* C7: when a batch_delete_partition or batch_create_partition call raises,
\* the run ends in failure without an update_table, and the target keeps the
\* location it had.
C7_ReconciliationFailure ==
    \A p \in Procs :
        local[p].raised \in {"batch_delete_partition", "batch_create_partition"} =>
            /\ pc[p] = "failed"
            /\ ~IssuedAny(p, "update_table")
            /\ tables[TargetName].Location = pre[p].tables[TargetName].Location

\* the second batch_delete_partition raised after the first had deleted its batch
C7_Witness ==
    \E p \in Procs :
        /\ local[p].raised = "batch_delete_partition"
        /\ Len(calls[p]) = 3
        /\ calls[p][2].op = "batch_delete_partition" /\ calls[p][2].ok
        /\ ~calls[p][3].ok
        /\ DOMAIN parts[TargetName] # DOMAIN pre[p].parts[TargetName]
        /\ DOMAIN parts[TargetName] # {}

\* C8: when update_table raises after the reconciliation, the target keeps its
\* prior location, has the temporary table's partitions, the temporary table
\* still exists and the run ends in failure.
C8_FlipFailure ==
    \A p \in Procs :
        local[p].raised = "update_table" =>
            /\ pc[p] = "failed"
            /\ tables[TargetName].Location = pre[p].tables[TargetName].Location
            /\ tables[TargetName].Schema = pre[p].tables[TargetName].Schema
            /\ local[p].version_tmp_table \in DOMAIN tables
            /\ DOMAIN parts[TargetName] = DOMAIN parts[local[p].version_tmp_table]
            /\ DOMAIN parts[TargetName] = local[p].staging_at_reconcile

\* update_table raised over a target whose partitions were replaced by others
C8_Witness ==
    \E p \in Procs :
        /\ local[p].raised = "update_table"
        /\ DOMAIN parts[TargetName] # DOMAIN pre[p].parts[TargetName]
        /\ DOMAIN parts[TargetName] # {}
        /\ DOMAIN pre[p].parts[TargetName] # {}

\* C9: when delete_table of the temporary table raises after update_table
\* succeeded, the run still ends in success.
C9_CleanupFailureIsNotFatal ==
    \A p \in Procs :
        (local[p].raised = "delete_table" /\ Issued(p, "update_table", TargetName)) =>
            pc[p] # "failed"

\* C10: no overwrite that registered a temporary table ends, in success or in
\* failure, without having issued delete_table on it.
C10_CleanupAlwaysAttempted ==
    \A p \in Procs :
        (pc[p] \in {"done", "failed"} /\ Overwrite(p)
         /\ local[p].version_tmp_table \in DOMAIN tables
         /\ local[p].version_tmp_table \notin DOMAIN pre[p].tables) =>
            Issued(p, "delete_table", local[p].version_tmp_table)

\* C11: a path under which a write of an earlier run raised is not the path of
\* the write of a later overwrite.
C11_FailedPathNeverReused ==
    \A p \in Procs :
        (Overwrite(p) /\ IssuedAny(p, "write_parquet")) =>
            ~\E rec \in storage :
                /\ rec.path = local[p].next_location
                /\ ~rec.complete
                /\ rec.run < local[p].run

\* the scheduler runs one job at a time
OneAtATime == \A p \in Procs : p = 1 \/ pc[p] = "off"

\* C12: with one job at a time, an overwrite that succeeded leaves under the
\* target's location the data of that run alone: no other run computed the
\* same next location and wrote under it.
C12_OneAtATimeNeverSharesAGeneration ==
    OneAtATime =>
        \A p \in Procs :
            (pc[p] = "done" /\ Overwrite(p)) =>
                \A rec \in storage :
                    rec.path = tables[TargetName].Location => rec.run = local[p].run

\* two jobs at once read the same location, computed the same next location,
\* both succeeded, and the target has the partitions of neither
C12_ConcurrentRace ==
    /\ \A p \in Procs : pc[p] = "done" /\ Overwrite(p)
    /\ \A p, q \in Procs :
          /\ local[p].next_location = local[q].next_location
          /\ local[p].existing_target_table = local[q].existing_target_table
    /\ \A p \in Procs : DOMAIN parts[TargetName] # local[p].dyf.Keys

\* the run issued a call op on table and the call returned
IssuedOk(p, op, table) ==
    \E j \in 1..Len(calls[p]) :
        calls[p][j].op = op /\ calls[p][j].table = table /\ calls[p][j].ok

\* every partition of the target lies where the target's location puts it
SameGeneration ==
    \A k \in DOMAIN parts[TargetName] :
        parts[TargetName][k] = PartitionLocation(tables[TargetName].Location, k)

\* C13 as stated: in an overwrite, before the first batch_delete_partition
\* on the target returned and after update_table returned, the target's
\* partitions are of the generation of the target's location.
C13_SameGenerationOutsideDeleteToFlip ==
    \A p \in Procs :
        (/\ Overwrite(p)
         /\ \/ ~IssuedOk(p, "batch_delete_partition", TargetName)
            \/ IssuedOk(p, "update_table", TargetName)) =>
            SameGeneration

\* C13: in an overwrite, before the first batch_delete_partition or
\* batch_create_partition on the target returned and after update_table
\* returned, the target's partitions are of the generation of the target's
\* location; in between a reader finds the old location and no partitions.
C13_SameGenerationOutsideTheWindow ==
    \A p \in Procs :
        (/\ Overwrite(p)
         /\ \/ /\ ~IssuedOk(p, "batch_delete_partition", TargetName)
               /\ ~IssuedOk(p, "batch_create_partition", TargetName)
            \/ IssuedOk(p, "update_table", TargetName)) =>
            SameGeneration

\* after delete_partitions and before copy_partitions: the target a reader
\* finds has the location the run found and none of the partitions it found
C13_Witness ==
    \E p \in Procs :
        /\ Overwrite(p)
        /\ pc[p] = "copy_partitions"
        /\ IssuedOk(p, "batch_delete_partition", TargetName)
        /\ DOMAIN pre[p].parts[TargetName] # {}
        /\ DOMAIN parts[TargetName] = {}
        /\ tables[TargetName].Location = pre[p].tables[TargetName].Location
        /\ tables[TargetName].Location # local[p].next_location

\* the segment is version_<integer>
IsVersion(seg) == seg.hasN /\ seg.s = "version_"

\* C14: for a location <prefix>/version_<n>/ the next location is
\* <prefix>/version_<n+1>/, and for a location whose second-to-last segment
\* is absent or is not version_<integer> calculate_next_location raises.
C14_NextLocation ==
    \A p \in Procs :
        Overwrite(p) =>
            LET l == local[p].existing_target_table.Location IN
            IF Len(l) >= 2 /\ IsVersion(l[Len(l) - 1])
            THEN l[Len(l)] = Empty =>
                    /\ local[p].raised # "calculate_next_location"
                    /\ local[p].next_location =
                          SubSeq(l, 1, Len(l) - 2) \o <<Version(l[Len(l) - 1].n + 1), Empty>>
            ELSE /\ local[p].raised = "calculate_next_location"
                 /\ local[p].next_location = <<>>

\* the place of a call in lines 104-118
Rank(op) ==
    CASE op = "write_parquet" -> 1
      [] op = "batch_delete_partition" -> 2
      [] op = "batch_create_partition" -> 3
      [] op = "update_table" -> 4
      [] op = "delete_table" -> 5
      [] OTHER -> 0

\* C15: the calls of an overwrite are the write to the temporary table, then
\* the batch_delete_partition calls on the target, then the
\* batch_create_partition calls on the target, then update_table on the
\* target, then delete_table on the temporary table; a call is issued only
\* after the calls before it returned, update_table only when the target has
\* the temporary table's partitions, delete_table only after update_table
\* returned.
C15_OrderOfCalls ==
    \A p \in Procs :
        Overwrite(p) =>
            LET c == calls[p] IN
            /\ \A i, j \in 1..Len(c) :
                  i < j => /\ Rank(c[i].op) <= Rank(c[j].op)
                           /\ c[i].ok
                           /\ c[i].op = c[j].op =>
                                 c[i].op \in {"batch_delete_partition",
                                              "batch_create_partition"}
            /\ \A j \in 1..Len(c) :
                  /\ j = 1 <=> c[j].op = "write_parquet"
                  /\ c[j].table = IF c[j].op \in {"write_parquet", "delete_table"}
                                  THEN local[p].version_tmp_table ELSE TargetName
            /\ IssuedAny(p, "update_table") =>
                  /\ IssuedOk(p, "batch_create_partition", TargetName)
                  /\ DOMAIN parts[TargetName] = local[p].staging_at_reconcile
            /\ IssuedAny(p, "delete_table") => IssuedOk(p, "update_table", TargetName)

\* an overwrite that ended with several calls of each batch kind
C15_Witness ==
    \E p \in Procs :
        /\ Overwrite(p)
        /\ pc[p] = "done"
        /\ \E i, j, k, l \in 1..Len(calls[p]) :
              /\ i < j /\ j < k /\ k < l
              /\ calls[p][i].op = "batch_delete_partition"
              /\ calls[p][j].op = "batch_delete_partition"
              /\ calls[p][k].op = "batch_create_partition"
              /\ calls[p][l].op = "batch_create_partition"
        /\ IssuedOk(p, "delete_table", local[p].version_tmp_table)

\* C16: an overwrite of a target whose location has no version_<integer> as
\* its second-to-last segment fails in calculate_next_location, before any
\* write and any catalog mutation: no call was issued, no data was written,
\* no table was created, the target and its partitions are as found.
C16_MalformedLocationFailsBeforeAnyWrite ==
    \A p \in Procs :
        LET l == local[p].existing_target_table.Location IN
        (Overwrite(p) /\ ~(Len(l) >= 2 /\ IsVersion(l[Len(l) - 1]))) =>
            /\ pc[p] = "failed"
            /\ local[p].raised = "calculate_next_location"
            /\ calls[p] = <<>>
            /\ tables = pre[p].tables
            /\ parts = pre[p].parts
            /\ ~\E rec \in storage : rec.run = local[p].run

\* C17: every batch_delete_partition call carries at most 25 keys and every
\* batch_create_partition call at most 100 partitions, whether it returned
\* or raised.
C17_BatchLimits ==
    \A p \in Procs :
        \A j \in 1..Len(calls[p]) :
            /\ calls[p][j].op = "batch_delete_partition" => calls[p][j].n <= 25
            /\ calls[p][j].op = "batch_create_partition" => calls[p][j].n <= 100

\* a listing page of the target longer than one batch was deleted in a full
\* batch and a rest, and a temporary table of more than 100 partitions was
\* copied in a full page and a rest
C17_Witness ==
    \E p \in Procs :
        /\ Overwrite(p)
        /\ pc[p] = "done"
        /\ Cardinality(DOMAIN pre[p].parts[TargetName]) > ListPageSize
        /\ ListPageSize > 25
        /\ Cardinality(local[p].staging_at_reconcile) > 100
        /\ \E i, k \in 1..(Len(calls[p]) - 1) :
              /\ calls[p][i] = Call("batch_delete_partition", TargetName, 25, TRUE)
              /\ calls[p][i + 1] =
                    Call("batch_delete_partition", TargetName, ListPageSize - 25, TRUE)
              /\ calls[p][k] = Call("batch_create_partition", TargetName, 100, TRUE)
              /\ calls[p][k + 1] =
                    Call("batch_create_partition", TargetName,
                         Cardinality(local[p].staging_at_reconcile) - 100, TRUE)

\* C18: in an overwrite that found a table of its temporary name in the
\* catalog, the partitions copied to the target are partitions of the frame
\* the run wrote: none is a partition the stale table had.
C18_StalePartitionsNeverCopied ==
    \A p \in Procs :
        (/\ Overwrite(p)
         /\ local[p].version_tmp_table \in DOMAIN pre[p].tables
         /\ IssuedOk(p, "batch_create_partition", TargetName)) =>
            DOMAIN parts[TargetName] \subseteq local[p].dyf.Keys

\* the location loc is base or lies below it
Under(loc, base) ==
    /\ Len(loc) >= Len(base)
    /\ SubSeq(loc, 1, Len(base)) = base

\* C19: in an overwrite the path given to the write differs from the location
\* the target had when the run read it, nothing the run wrote lies under that
\* location, and the data that was under it is still there.
C19_WritePathIsNotTheLiveLocation ==
    \A p \in Procs :
        (Overwrite(p) /\ IssuedAny(p, "write_parquet")) =>
            LET live == local[p].existing_target_table.Location IN
            /\ local[p].next_location # live
            /\ calls[p][1].table # TargetName
            /\ \A rec \in storage :
                  rec.run = local[p].run =>
                      /\ rec.path = local[p].next_location
                      /\ ~Under(rec.path, live)
            /\ [path |-> live, run |-> 0, complete |-> TRUE] \in storage

\* an overwrite that ended, with the data it wrote under the next location
C19_Witness ==
    \E p \in Procs :
        /\ Overwrite(p)
        /\ pc[p] = "done"
        /\ local[p].dyf.Keys # {}
        /\ [path |-> local[p].next_location, run |-> local[p].run, complete |-> TRUE]
               \in storage
        /\ tables[TargetName].Location = local[p].next_location

\* C20: in an overwrite, a partition copied to the target has the location
\* it has in the temporary table; between copy_partitions and update_table
\* every partition of the target lies under the next location and not under
\* the location the target still has; after the swap every partition of the
\* target lies under the target's location.
C20_CopiedPartitionsKeepTheirLocation ==
    \A p \in Procs :
        Overwrite(p) =>
            LET tmp == local[p].version_tmp_table
                target == parts[TargetName]
            IN
            /\ (IssuedOk(p, "batch_create_partition", TargetName) /\ tmp \in DOMAIN parts) =>
                  \A k \in DOMAIN target :
                      k \in DOMAIN parts[tmp] /\ target[k] = parts[tmp][k]
            /\ pc[p] = "update_table" =>
                  /\ tables[TargetName].Location = local[p].existing_target_table.Location
                  /\ \A k \in DOMAIN target :
                        /\ Under(target[k], local[p].next_location)
                        /\ ~Under(target[k], tables[TargetName].Location)
            /\ pc[p] = "done" =>
                  /\ tables[TargetName].Location = local[p].next_location
                  /\ \A k \in DOMAIN target :
                        Under(target[k], tables[TargetName].Location)

\* copy_partitions returned after more than one page and update_table is next
C20_Witness ==
    \E p \in Procs :
        /\ Overwrite(p)
        /\ pc[p] = "update_table"
        /\ Cardinality(DOMAIN parts[TargetName]) > PageSize
        /\ DOMAIN parts[TargetName] = DOMAIN parts[local[p].version_tmp_table]
        /\ DOMAIN pre[p].parts[TargetName] # {}

====
